---- MODULE Spec2Model ----
(***************************************************************************)
(* A model of the scraping engine (class ScrapingAIEngine): the public      *)
(* scrape operation, the bounded fetch with its abort timer, and the pure   *)
(* text stages that run once the response body has arrived; and of the API  *)
(* route that calls it.                                                     *)
(*                                                                          *)
(* JavaScript strings are TLA+ strings (ASCII only); a single character is  *)
(* Ch(s, i).  A property that is undefined is a key that is absent from the *)
(* function modelling the object.                                           *)
(***************************************************************************)
EXTENDS Integers, Sequences, FiniteSets, TLC

VARIABLES
    pc,          \* pc[c]: where invocation c of scrape stands
    config,      \* config[c]: the argument scrape was called with
    timer,       \* timer[c]: the deadline timer of fetchContent
    aborted,     \* aborted[c]: controller.signal.aborted
    requests,    \* requests[c]: the outbound requests issued by the call
    response,    \* response[c]: the Response fetch() resolved with, once it has
    bodyRead,    \* bodyRead[c]: response.text() has been called
    fetchError,  \* fetchError[c]: what fetch() or response.text() rejected with
    fetched,     \* fetched[c]: the text response.text() resolved with
    result,      \* result[c]: what the promise returned by scrape settled with
    now,         \* the wall clock, in milliseconds since the epoch
    httpRequest, \* httpRequest[c]: the body of the POST that led to call c
    httpResponse, \* httpResponse[c]: what the API route answered it with
    stages       \* stages[c]: the methods scrape has called so far, in order

vars == <<pc, config, timer, aborted, requests, response, bodyRead,
          fetchError, fetched, result, now, httpRequest, httpResponse, stages>>

\* the API route's part of the state
http == <<httpRequest, httpResponse>>

(***************************************************************************)
(* Invocations.  Spec runs one invocation; the second identifier is kept    *)
(* for specifications that run two of them on one engine.                   *)
(***************************************************************************)
Calls == {1, 2}
Active == {1}

(***************************************************************************)
(* Evaluation.  The({f(x) : x \in {e}}) is f(e) with e evaluated once,      *)
(* before f: the operators below scan their string argument many times.     *)
(***************************************************************************)
\* the element of a set of one element
The(S) == CHOOSE r \in S : TRUE

\* The least element of a set of indexes, 0 when it is empty.
Least(S) ==
    The({IF found = {} THEN 0 ELSE CHOOSE k \in found : \A j \in found : k <= j
         : found \in {S}})

\* The greatest element of a set of indexes, 0 when it is empty.
Greatest(S) ==
    The({IF found = {} THEN 0 ELSE CHOOSE k \in found : \A j \in found : k >= j
         : found \in {S}})

(***************************************************************************)
(* Strings.                                                                 *)
(***************************************************************************)
\* s[i], the empty string outside the string
Ch(s, i) == IF i >= 1 /\ i <= Len(s) THEN SubSeq(s, i, i) ELSE ""

\* lit occurs in s at index i
LitAt(s, i, lit) ==
    /\ i >= 1
    /\ i + Len(lit) - 1 <= Len(s)
    /\ SubSeq(s, i, i + Len(lit) - 1) = lit

\* The first index >= i at which lit occurs in s, 0 when there is none.
IndexOf(s, lit, i) ==
    IF i < 1 THEN 0 ELSE Least({k \in i..(Len(s) - Len(lit) + 1) : LitAt(s, k, lit)})

Includes(s, lit) == IndexOf(s, lit, 1) # 0

UpperChars == "ABCDEFGHIJKLMNOPQRSTUVWXYZ"
LowerChars == "abcdefghijklmnopqrstuvwxyz"
DigitChars == "0123456789"

IsUpper(c) == Len(c) = 1 /\ Includes(UpperChars, c)
IsLower(c) == Len(c) = 1 /\ Includes(LowerChars, c)
IsDigit(c) == Len(c) = 1 /\ Includes(DigitChars, c)
IsAlpha(c) == IsUpper(c) \/ IsLower(c)
\* \s of a regular expression, on the ASCII characters of the model.
IsSpace(c) == c \in {" ", "\t", "\n", "\r", "\f"}

LowerCh(c) == IF IsUpper(c) THEN Ch(LowerChars, IndexOf(UpperChars, c, 1)) ELSE c

\* String.prototype.toLowerCase
toLowerCase(str) ==
    The({LET lower[i \in 1..(Len(s) + 1)] ==
                IF i > Len(s) THEN "" ELSE LowerCh(Ch(s, i)) \o lower[i + 1]
        IN  lower[1]
         : s \in {str}})

\* String.prototype.trim
trim(str) ==
    The({The({IF a = 0 THEN ""
            ELSE SubSeq(s, a, Greatest({k \in a..Len(s) : ~IsSpace(Ch(s, k))}))
             : a \in {Least({k \in 1..Len(s) : ~IsSpace(Ch(s, k))})}})
         : s \in {str}})

\* lit (given in lower case) occurs in s at index i, compared without case
EqCIAt(s, i, lit) ==
    /\ i >= 1
    /\ i + Len(lit) - 1 <= Len(s)
    /\ LowerCh(SubSeq(s, i, i)) = SubSeq(lit, 1, 1)
    /\ toLowerCase(SubSeq(s, i, i + Len(lit) - 1)) = lit

IndexOfCI(s, lit, i) ==
    IF i < 1 THEN 0 ELSE Least({k \in i..(Len(s) - Len(lit) + 1) : EqCIAt(s, k, lit)})

InClass(cls, c) ==
    CASE cls = "space"  -> IsSpace(c)
      [] cls = "digit"  -> IsDigit(c)
      [] cls = "alpha"  -> IsAlpha(c)
      [] cls = "local"  -> IsAlpha(c) \/ IsDigit(c) \/ c \in {".", "_", "%", "+", "-"}
      [] cls = "domain" -> IsAlpha(c) \/ IsDigit(c) \/ c \in {".", "-"}
      [] cls = "notquote" -> c \notin {"\"", "'"}
      [] cls = "notlt"  -> c # "<"
      [] cls = "notgt"  -> c # ">"
      \* [.!?] and three CJK terminators, which an ASCII string never holds
      [] cls = "terminator" -> c \in {".", "!", "?"}
      [] cls = "newline" -> c = "\n"
      [] cls = "notterminator" -> c \notin {".", "!", "?"}
      [] cls = "notnewline" -> c # "\n"
      [] OTHER -> FALSE

\* The last index of the run of characters of class cls that starts at i
\* (i - 1 when s[i] is not in the class).
RunEnd(s, cls, i) ==
    The({IF stop = 0 THEN Len(s) ELSE stop - 1
         : stop \in {Least({k \in i..Len(s) : ~InClass(cls, Ch(s, k))})}})

(***************************************************************************)
(* The regular expressions without a capture group.  Each XxxEnd(s, i) is   *)
(* the index of the last character of the match that starts at i, 0 when    *)
(* the expression does not match at i.                                      *)
(***************************************************************************)
\* /<open[^>]*>.../i : the index after the '>' that ends the opening tag,
\* which [^>]* reaches at the first '>'
BlockBodyStart(s, i, open) ==
    IF EqCIAt(s, i, open)
    THEN The({IF j = 0 THEN 0 ELSE j + 1 : j \in {IndexOf(s, ">", i + Len(open))}})
    ELSE 0

\* /<open[^>]*>[\s\S]*?<\/close>/i : the lazy body runs to the first
\* closing tag
BlockEnd(s, i, open, close) ==
    The({IF b = 0 THEN 0
        ELSE The({IF k = 0 THEN 0 ELSE k + Len(close) - 1 : k \in {IndexOfCI(s, close, b)}})
         : b \in {BlockBodyStart(s, i, open)}})

\* /<!--[\s\S]*?-->/
CommentEnd(s, i) ==
    IF LitAt(s, i, "<!--")
    THEN The({IF k = 0 THEN 0 ELSE k + 2 : k \in {IndexOf(s, "-->", i + 4)}})
    ELSE 0

\* a normalization that strips no tag
TagEndNever(s, i) == 0

\* /<[^>]+>/
TagEnd(s, i) ==
    IF Ch(s, i) = "<"
    THEN The({IF j >= i + 2 THEN j ELSE 0 : j \in {IndexOf(s, ">", i + 1)}})
    ELSE 0

\* /\d+(\.\d+)?/
NumberEnd(s, i) ==
    IF IsDigit(Ch(s, i))
    THEN The({IF Ch(s, j + 1) = "." /\ IsDigit(Ch(s, j + 2))
             THEN RunEnd(s, "digit", j + 2) ELSE j
              : j \in {RunEnd(s, "digit", i)}})
    ELSE 0

\* [a-zA-Z0-9.-]+\.[a-zA-Z]{2,} from a: the greedy first part gives
\* characters back until a dot and two letters follow it.
EmailDomainEnd(s, a) ==
    The({IF d = 0 THEN 0 ELSE RunEnd(s, "alpha", d + 2)
         : d \in {Greatest({k \in a..RunEnd(s, "domain", a) :
                      Ch(s, k + 1) = "." /\ IsAlpha(Ch(s, k + 2)) /\ IsAlpha(Ch(s, k + 3))})}})

\* /[a-zA-Z0-9._%+-]+@[a-zA-Z0-9.-]+\.[a-zA-Z]{2,}/ : the local part runs to
\* the '@'
EmailEnd(s, i) ==
    IF InClass("local", Ch(s, i))
    THEN The({IF Ch(s, p + 1) # "@" THEN 0 ELSE EmailDomainEnd(s, p + 2)
              : p \in {RunEnd(s, "local", i)}})
    ELSE 0

MatchEnd(re, s, i) ==
    CASE re = "script"  -> BlockEnd(s, i, "<script", "</script>")
      [] re = "style"   -> BlockEnd(s, i, "<style", "</style>")
      [] re = "comment" -> CommentEnd(s, i)
      [] re = "nbsp"    -> IF LitAt(s, i, "&nbsp;") THEN i + 5 ELSE 0
      [] re = "tag"     -> TagEnd(s, i)
      [] re = "spaces"  -> IF IsSpace(Ch(s, i)) THEN RunEnd(s, "space", i) ELSE 0
      [] re = "number"  -> NumberEnd(s, i)
      [] re = "email"   -> EmailEnd(s, i)
      [] OTHER -> 0

\* The leftmost match of re at or after i: [start, end], start = 0 for none.
NextMatch(re, s, i) ==
    The({[start |-> m, end |-> IF m = 0 THEN 0 ELSE MatchEnd(re, s, m)]
         : m \in {Least({k \in i..Len(s) : MatchEnd(re, s, k) # 0})}})

\* String.prototype.replace with a global regular expression and a constant
\* replacement: leftmost matches, left to right, not overlapping.
replace(str, re, rep) ==
    The({LET from[i \in 1..(Len(s) + 1)] ==
                The({IF m.start = 0 THEN SubSeq(s, i, Len(s))
                    ELSE SubSeq(s, i, m.start - 1) \o rep \o from[m.end + 1]
                     : m \in {NextMatch(re, s, i)}})
        IN  from[1]
         : s \in {str}})

\* extractTextContent decoding &nbsp; after the whitespace is collapsed
extractTextContentDecodingLast(html) ==
    LET noBlocks == replace(replace(replace(html, "script", ""), "style", ""),
                            "comment", "")
    IN  replace(trim(replace(replace(noBlocks, "tag", " "), "spaces", " ")), "nbsp", " ")

\* Lines 434-438 replace '<', '>', '&', '"' and "'" by themselves: as the
\* source stands only &nbsp; is decoded.
extractTextContent(html) ==
    LET noBlocks == replace(replace(replace(html, "script", ""), "style", ""),
                            "comment", "")
        decoded  == replace(noBlocks, "nbsp", " ")
    IN  trim(replace(replace(decoded, "tag", " "), "spaces", " "))

\* String.prototype.match with a global regular expression: the matched
\* substrings, left to right (the empty sequence for JavaScript's null).
matchAll(str, re) ==
    The({LET from[i \in 1..(Len(s) + 1)] ==
                The({IF m.start = 0 THEN <<>>
                    ELSE <<SubSeq(s, m.start, m.end)>> \o from[m.end + 1]
                     : m \in {NextMatch(re, s, i)}})
        IN  from[1]
         : s \in {str}})

\* String.prototype.split on the characters of class cls, without the empty
\* pieces (which every caller filters out).
split(str, cls) ==
    The({LET from[i \in 1..(Len(s) + 1)] ==
                 The({IF b = 0 THEN <<>>
                      ELSE <<SubSeq(s, b, RunEnd(s, "not" \o cls, b))>>
                               \o from[RunEnd(s, "not" \o cls, b) + 1]
                      : b \in {Least({k \in i..Len(s) : ~InClass(cls, Ch(s, k))})}})
         IN  from[1]
         : s \in {str}})

\* Array.prototype.join
join(array, sep) ==
    The({LET from[n \in 1..(Len(parts) + 1)] ==
                IF n > Len(parts) THEN ""
                ELSE IF n = Len(parts) THEN parts[n]
                ELSE parts[n] \o sep \o from[n + 1]
        IN  from[1]
         : parts \in {array}})

NonBlank(x) == Len(trim(x)) > 0

\* summarizeContent keeping every sentence
summarizeContentAll(content) ==
    The({join(sentences, ". ") \o "."
         : sentences \in {SelectSeq(split(content, "terminator"), NonBlank)}})

summarizeContent(content) ==
    The({LET summaryLength == IF Len(sentences) < 3 THEN Len(sentences) ELSE 3
        IN  join(SubSeq(sentences, 1, summaryLength), ". ") \o "."
         : sentences \in {SelectSeq(split(content, "terminator"), NonBlank)}})

\* a key line test that lets a line of 100 characters through
IsKeyLineUpTo100(line) ==
    /\ Len(line) <= 100
    /\ (Includes(line, ":") \/ Includes(line, "-"))

\* ':' or '-', or one of two non-ASCII markers an ASCII string never holds
IsKeyLine(line) ==
    /\ Len(line) < 100
    /\ (Includes(line, ":") \/ Includes(line, "-"))

extractKeyPoints(content) ==
    The({join(SelectSeq(lines, IsKeyLine), "\n")
         : lines \in {SelectSeq(split(content, "newline"), NonBlank)}})

extractNumbers(content) == join(matchAll(content, "number"), ", ")

extractEmails(content) == join(matchAll(content, "email"), ", ")

\* applyPrompt whose default case cleans the text like 'clean_text'
applyPromptDefaultClean(str, prompt) ==
    The({The({CASE promptLower = "summarize"          -> summarizeContent(content)
          [] promptLower = "extract_key_points" -> extractKeyPoints(content)
          [] promptLower = "extract_numbers"    -> extractNumbers(content)
          [] promptLower = "extract_emails"     -> extractEmails(content)
          [] OTHER                              -> trim(replace(content, "spaces", " "))
         : promptLower \in {toLowerCase(prompt)}})
         : content \in {str}})

applyPrompt(str, prompt) ==
    The({The({CASE promptLower = "summarize"          -> summarizeContent(content)
          [] promptLower = "extract_key_points" -> extractKeyPoints(content)
          [] promptLower = "clean_text"         -> trim(replace(content, "spaces", " "))
          [] promptLower = "extract_numbers"    -> extractNumbers(content)
          [] promptLower = "extract_emails"     -> extractEmails(content)
          [] OTHER                              -> content
         : promptLower \in {toLowerCase(prompt)}})
         : content \in {str}})

\* every prompt applied to the normalized text itself, the last one's
\* value returned
enhanceContentWithAIBranches(content, prompts) ==
    LET enhanced[n \in 0..Len(prompts)] ==
            IF n = 0 THEN extractTextContent(content)
            ELSE applyPrompt(enhanced[0], prompts[n])
    IN  enhanced[Len(prompts)]

\* the loop of lines 413-416: enhanced after the first n prompts
enhanceContentWithAI(content, prompts) ==
    LET enhanced[n \in 0..Len(prompts)] ==
            IF n = 0 THEN extractTextContent(content)
            ELSE applyPrompt(enhanced[n - 1], prompts[n])
    IN  enhanced[Len(prompts)]

(***************************************************************************)
(* Regular expressions with a capture group.  Each XxxAt(s, i) is the match *)
(* that starts at i as [end |-> index of its last character, cap |-> the    *)
(* captured text], with end = 0 when the expression does not match at i.    *)
(***************************************************************************)
NoMatch == [end |-> 0, cap |-> ""]

IsQuote(c) == c \in {"\"", "'"}
IsLevel(c) == c \in {"1", "2", "3", "4", "5", "6"}

\* The last index the [^>]* that starts at i can reach: one before the first
\* '>' at or after i, the end of the string when there is none.
NoGtEnd(s, i) ==
    The({IF g = 0 THEN Len(s) ELSE g - 1 : g \in {IndexOf(s, ">", i)}})

\* name=["']value["'] (without case) starts at n
AttrLitAt(s, n, name, value) ==
    /\ EqCIAt(s, n, name \o "=")
    /\ IsQuote(Ch(s, n + Len(name) + 1))
    /\ EqCIAt(s, n + Len(name) + 2, value)
    /\ IsQuote(Ch(s, n + Len(name) + 2 + Len(value)))

\* name=["']([^"']+)["'] starts at n: the capture runs to the next quote
AttrCapAt(s, n, name) ==
    IF EqCIAt(s, n, name \o "=") /\ IsQuote(Ch(s, n + Len(name) + 1))
    THEN The({IF e >= n + Len(name) + 2 /\ IsQuote(Ch(s, e + 1))
             THEN [end |-> e + 1, cap |-> SubSeq(s, n + Len(name) + 2, e)]
             ELSE NoMatch
              : e \in {RunEnd(s, "notquote", n + Len(name) + 2)}})
    ELSE NoMatch

\* <\/title> or <\/h[1-6]> (without case) starts at k: the index of its
\* last character, 0 when it does not
CloseEnd(s, k, close) ==
    IF close = "title"
    THEN (IF EqCIAt(s, k, "</title>") THEN k + 7 ELSE 0)
    ELSE (IF EqCIAt(s, k, "</h") /\ IsLevel(Ch(s, k + 3)) /\ Ch(s, k + 4) = ">"
          THEN k + 4 ELSE 0)

\* /<open[^>]*>([^<]+)<\/close>/i
TextElementAt(s, i, open, close) ==
    The({IF b = 0 THEN NoMatch
        ELSE The({IF k > b /\ CloseEnd(s, k, close) # 0
                 THEN [end |-> CloseEnd(s, k, close), cap |-> SubSeq(s, b, k - 1)]
                 ELSE NoMatch
                  : k \in {RunEnd(s, "notlt", b) + 1}})
         : b \in {BlockBodyStart(s, i, open)}})

\* /<title[^>]*>([^<]+)<\/title>/i
TitleAt(s, i) == TextElementAt(s, i, "<title", "title")

\* /<meta[^>]*name=["']description["'][^>]*content=["']([^"']+)["']/i : each
\* greedy [^>]* settles on the last place from which the rest still matches.
DescContentAt(s, a) ==
    The({IF m = 0 THEN NoMatch ELSE AttrCapAt(s, m, "content")
         : m \in {Greatest({k \in a..(NoGtEnd(s, a) + 1) :
                      AttrCapAt(s, k, "content").end # 0})}})

DescriptionAt(s, i) ==
    IF EqCIAt(s, i, "<meta")
    THEN The({IF n = 0 THEN NoMatch ELSE DescContentAt(s, n + 18)
              : n \in {Greatest({k \in (i + 5)..(NoGtEnd(s, i + 5) + 1) :
                           /\ AttrLitAt(s, k, "name", "description")
                           /\ DescContentAt(s, k + 18).end # 0})}})
    ELSE NoMatch

\* attr=["']([^"']+)["'][^>]*> starts at k
AttrToGtAt(s, k, attr) ==
    The({IF c.end = 0 THEN NoMatch
        ELSE The({IF g = 0 THEN NoMatch ELSE [end |-> g, cap |-> c.cap]
                  : g \in {IndexOf(s, ">", c.end + 1)}})
         : c \in {AttrCapAt(s, k, attr)}})

\* /<tag[^>]*attr=["']([^"']+)["'][^>]*>/i
TagAttrAt(s, i, tag, attr) ==
    IF EqCIAt(s, i, tag)
    THEN The({IF n = 0 THEN NoMatch ELSE AttrToGtAt(s, n, attr)
              : n \in {Greatest({k \in (i + Len(tag))..(NoGtEnd(s, i + Len(tag)) + 1) :
                           AttrToGtAt(s, k, attr).end # 0})}})
    ELSE NoMatch

\* /<h[1-6][^>]*>([^<]+)<\/h[1-6]>/i
HeadingAt(s, i) ==
    IF EqCIAt(s, i, "<h") /\ IsLevel(Ch(s, i + 2))
    THEN TextElementAt(s, i, toLowerCase(SubSeq(s, i, i + 2)), "heading")
    ELSE NoMatch

\* /<open[^>]*>([\s\S]*?)<\/close>/i
BlockAt(s, i, open, close) ==
    The({IF b = 0 THEN NoMatch
        ELSE The({IF k = 0 THEN NoMatch
                 ELSE [end |-> k + Len(close) - 1, cap |-> SubSeq(s, b, k - 1)]
                  : k \in {IndexOfCI(s, close, b)}})
         : b \in {BlockBodyStart(s, i, open)}})

\* /<(ul|ol)[^>]*>([\s\S]*?)<\/\1>/i
ListAt(s, i) ==
    IF EqCIAt(s, i, "<ul") THEN BlockAt(s, i, "<ul", "</ul>")
    ELSE IF EqCIAt(s, i, "<ol") THEN BlockAt(s, i, "<ol", "</ol>")
    ELSE NoMatch

\* /<script[^>]*type=["']application\/ld\+json["'][^>]*>([\s\S]*?)<\/script>/i
JsonLdAt(s, i) ==
    IF /\ EqCIAt(s, i, "<script")
       /\ \E n \in (i + 7)..(NoGtEnd(s, i + 7) + 1) :
              AttrLitAt(s, n, "type", "application/ld+json")
    THEN BlockAt(s, i, "<script", "</script>")
    ELSE NoMatch

CapAt(re, s, i) ==
    CASE re = "title"       -> TitleAt(s, i)
      [] re = "description" -> DescriptionAt(s, i)
      [] re = "img"         -> TagAttrAt(s, i, "<img", "src")
      [] re = "link"        -> TagAttrAt(s, i, "<a", "href")
      [] re = "heading"     -> HeadingAt(s, i)
      [] re = "list"        -> ListAt(s, i)
      [] re = "table"       -> BlockAt(s, i, "<table", "</table>")
      [] re = "form"        -> BlockAt(s, i, "<form", "</form>")
      [] re = "jsonLd"      -> JsonLdAt(s, i)
      [] OTHER -> NoMatch

\* The leftmost match of re at or after i, NoMatch for none.
NextCap(re, s, i) ==
    The({IF m = 0 THEN NoMatch ELSE CapAt(re, s, m)
         : m \in {Least({k \in i..Len(s) : CapAt(re, s, k).end # 0})}})

\* The loop `while ((match = regex.exec(content)) !== null)` over a global
\* regular expression: the captures of the successive matches.
execAll(str, re) ==
    The({LET from[i \in 1..(Len(s) + 1)] ==
                The({IF m.end = 0 THEN <<>> ELSE <<m.cap>> \o from[m.end + 1]
                     : m \in {NextCap(re, s, i)}})
        IN  from[1]
         : s \in {str}})

\* String.prototype.match without the global flag: the capture of the first
\* match, as a sequence of length one, or the empty sequence for null.
matchFirst(str, re) ==
    The({The({IF m.end = 0 THEN <<>> ELSE <<m.cap>> : m \in {NextCap(re, s, 1)}}) : s \in {str}})

(***************************************************************************)
(* JSON.parse.  A parsed value is [num |-> the literal's text],             *)
(* [str |-> s], [lit |-> "true" | "false" | "null"], [arr |-> <<v, ...>>]   *)
(* or [obj |-> <<[k |-> key, v |-> value], ...>>].  Each ParseXxx(s, i) is  *)
(* [ok |-> the text at i parses, v |-> its value, next |-> the index after  *)
(* it].  The escapes \uXXXX and \b are kept as written.                   *)
(***************************************************************************)
JsonFail == [ok |-> FALSE, v |-> [lit |-> "null"], next |-> 0]
JsonOk(v, next) == [ok |-> TRUE, v |-> v, next |-> next]

IsJsonWs(c) == c \in {" ", "\t", "\n", "\r"}
SkipWs(s, i) ==
    The({IF stop = 0 THEN Len(s) + 1 ELSE stop
         : stop \in {Least({k \in i..Len(s) : ~IsJsonWs(Ch(s, k))})}})

IsHex(c) == IsDigit(c) \/ c \in {"a", "b", "c", "d", "e", "f", "A", "B", "C", "D", "E", "F"}

Unescape(c) ==
    CASE c = "b" -> "\\b" [] c = "f" -> "\f" [] c = "n" -> "\n"
      [] c = "r" -> "\r" [] c = "t" -> "\t" [] OTHER -> c

\* the characters of a string literal from i (after the opening quote)
ParseChars(s, i) ==
    LET Then(piece, rest) ==
            IF rest.ok THEN JsonOk([str |-> piece \o rest.v.str], rest.next) ELSE JsonFail
        chars[n \in 1..(Len(s) + 1)] ==
            The({IF c = "" \/ c \in {"\n", "\r", "\t", "\f"} THEN JsonFail
                ELSE IF c = "\"" THEN JsonOk([str |-> ""], n + 1)
                ELSE IF c # "\\" THEN The({Then(c, rest) : rest \in {chars[n + 1]}})
                ELSE The({IF d \in {"\"", "\\", "/", "b", "f", "n", "r", "t"}
                    THEN The({Then(Unescape(d), rest) : rest \in {chars[n + 2]}})
                    ELSE IF d = "u" /\ \A k \in (n + 2)..(n + 5) : IsHex(Ch(s, k))
                    THEN The({Then(SubSeq(s, n, n + 5), rest) : rest \in {chars[n + 6]}})
                    ELSE JsonFail
                          : d \in {Ch(s, n + 1)}})
                 : c \in {Ch(s, n)}})
    IN  IF i <= Len(s) THEN chars[i] ELSE JsonFail

\* -?(0|[1-9][0-9]*) from i: the index of its last character, 0 when the
\* text at i is no such literal
IntEnd(s, i) ==
    The({IF Ch(s, a) = "0" THEN a
         ELSE IF IsDigit(Ch(s, a)) THEN RunEnd(s, "digit", a) ELSE 0
         : a \in {IF Ch(s, i) = "-" THEN i + 1 ELSE i}})

\* (\.[0-9]+)? after index b: the index of its last character
FracEnd(s, b) ==
    IF Ch(s, b + 1) = "." /\ IsDigit(Ch(s, b + 2)) THEN RunEnd(s, "digit", b + 2) ELSE b

\* ([eE][+-]?[0-9]+)? after index c: the index of its last character
ExpEnd(s, c) ==
    The({IF Ch(s, c + 1) \in {"e", "E"} /\ IsDigit(Ch(s, x)) THEN RunEnd(s, "digit", x) ELSE c
         : x \in {IF Ch(s, c + 2) \in {"+", "-"} THEN c + 3 ELSE c + 2}})

\* A number literal is read as far as it goes: what is left of "1." or "1e"
\* is a character no JSON text has after a value, and fails there.
ParseNumber(s, i) ==
    The({IF d = 0 THEN JsonFail ELSE JsonOk([num |-> SubSeq(s, i, d)], d + 1)
         : d \in {IF b = 0 THEN 0 ELSE ExpEnd(s, c)
             : b \in {IntEnd(s, i)}, c \in {FracEnd(s, IntEnd(s, i))}}})

\* a repeated key keeps its first place and takes the last value
AddMember(members, k, v) ==
    IF \E n \in 1..Len(members) : members[n].k = k
    THEN [n \in 1..Len(members) |->
             IF members[n].k = k THEN [k |-> k, v |-> v] ELSE members[n]]
    ELSE Append(members, [k |-> k, v |-> v])

RECURSIVE ParseValue(_, _)
RECURSIVE ParseElements(_, _, _)
RECURSIVE ParseMembers(_, _, _)

\* the value that starts at the first character after white space from i
ParseValue(s, i) ==
    The({The({CASE c = "{" ->
               The({IF Ch(s, n) = "}" THEN JsonOk([obj |-> <<>>], n + 1)
                   ELSE ParseMembers(s, j + 1, <<>>)
                    : n \in {SkipWs(s, j + 1)}})
          [] c = "[" ->
               The({IF Ch(s, n) = "]" THEN JsonOk([arr |-> <<>>], n + 1)
                   ELSE ParseElements(s, j + 1, <<>>)
                    : n \in {SkipWs(s, j + 1)}})
          [] c = "\"" -> ParseChars(s, j + 1)
          [] c = "-" \/ IsDigit(c) -> ParseNumber(s, j)
          [] c = "t" /\ LitAt(s, j, "true")  -> JsonOk([lit |-> "true"], j + 4)
          [] c = "f" /\ LitAt(s, j, "false") -> JsonOk([lit |-> "false"], j + 5)
          [] c = "n" /\ LitAt(s, j, "null")  -> JsonOk([lit |-> "null"], j + 4)
          [] OTHER -> JsonFail
         : c \in {Ch(s, j)}})
         : j \in {SkipWs(s, i)}})

\* the elements of an array from i, up to and including its ']'
ParseElements(s, i, before) ==
    The({The({IF ~e.ok THEN JsonFail
        ELSE The({IF Ch(s, j) = "," THEN ParseElements(s, j + 1, Append(acc, e.v))
             ELSE IF Ch(s, j) = "]" THEN JsonOk([arr |-> Append(acc, e.v)], j + 1)
             ELSE JsonFail
                  : j \in {SkipWs(s, e.next)}})
         : e \in {ParseValue(s, i)}})
         : acc \in {before}})

\* the key of a member from i: a string literal after white space
ParseKey(s, i) ==
    The({IF Ch(s, j) = "\"" THEN ParseChars(s, j + 1) ELSE JsonFail : j \in {SkipWs(s, i)}})

\* the ':' and the value of a member from i
ParseColonValue(s, i) ==
    The({IF Ch(s, c) = ":" THEN ParseValue(s, c + 1) ELSE JsonFail : c \in {SkipWs(s, i)}})

\* the members of an object from i, up to and including its '}'
ParseMembers(s, i, before) ==
    The({The({The({IF ~e.ok THEN JsonFail
        ELSE The({IF Ch(s, n) = ","
             THEN ParseMembers(s, n + 1, AddMember(acc, k.v.str, e.v))
             ELSE IF Ch(s, n) = "}"
             THEN JsonOk([obj |-> AddMember(acc, k.v.str, e.v)], n + 1)
             ELSE JsonFail
                  : n \in {SkipWs(s, e.next)}})
         : e \in {IF k.ok THEN ParseColonValue(s, k.next) ELSE JsonFail}})
         : k \in {ParseKey(s, i)}})
         : acc \in {before}})

\* JSON.parse(text): ok is FALSE where JSON.parse throws a SyntaxError
JSONparse(text) ==
    The({The({IF r.ok /\ SkipWs(s, r.next) = Len(s) + 1 THEN r ELSE JsonFail
             : r \in {ParseValue(s, 1)}})
         : s \in {text}})

(***************************************************************************)
(* Objects.  An object is a function from its keys; a property whose value  *)
(* is undefined is left out.                                                *)
(***************************************************************************)
Has(obj, key) == key \in DOMAIN obj
Prop(key, present, value) == IF present THEN key :> value ELSE [k \in {} |-> k]

\* JavaScript's null
Null == [null |-> TRUE]

\* What a throw statement or a rejected promise carries: an Error instance
\* with its name and message, or a value that is not an Error.
Err(name, message) == [isError |-> TRUE, name |-> name, message |-> message]
NonError(value) == [isError |-> FALSE, name |-> "", message |-> value]

\* An array element that is not a string (aiPrompts: [42])
NotAString == "(not a string)"

\* Date.prototype.toISOString for a time t < 1000 ms after the epoch
toISOString(t) ==
    "1970-01-01T00:00:00."
        \o (IF t < 10 THEN "00" ELSE IF t < 100 THEN "0" ELSE "") \o ToString(t) \o "Z"

DEFAULT_HEADERS ==
    [UserAgent |-> "Mozilla/5.0 (Windows NT 10.0; Win64; x64) AppleWebKit/537.36 (KHTML, like Gecko) Chrome/120.0.0.0 Safari/537.36",
     Accept |-> "text/html,application/xhtml+xml,application/xml;q=0.9,image/webp,*/*;q=0.8",
     AcceptLanguage |-> "zh-CN,zh;q=0.8,en-US;q=0.5,en;q=0.3",
     AcceptEncoding |-> "gzip, deflate, br",
     DNT |-> "1",
     Connection |-> "keep-alive",
     UpgradeInsecureRequests |-> "1"]

(***************************************************************************)
(* validateConfig: `x || d` takes d when x is undefined, 0 or "".           *)
(***************************************************************************)
validateConfig(cfg) ==
    Prop("url", Has(cfg, "url"), cfg.url)
    @@ Prop("selector", Has(cfg, "selector"), cfg.selector)
    @@ [maxRetries  |-> IF Has(cfg, "maxRetries") /\ cfg.maxRetries # 0
                        THEN cfg.maxRetries ELSE 3,
        timeout     |-> IF Has(cfg, "timeout") /\ cfg.timeout # 0
                        THEN cfg.timeout ELSE 10000,
        javascript  |-> ~(Has(cfg, "javascript") /\ cfg.javascript = FALSE),
        extractMode |-> IF Has(cfg, "extractMode") /\ cfg.extractMode # ""
                        THEN cfg.extractMode ELSE "text",
        aiPrompts   |-> IF Has(cfg, "aiPrompts") THEN cfg.aiPrompts ELSE <<>>]

(***************************************************************************)
(* isValidUrl: new URL(url) does not throw.  The URL parser is the host's;  *)
(* what is modelled of it: the input is trimmed; it must start with a       *)
(* scheme, a letter followed by letters, digits, '+', '-' or '.', up to a   *)
(* ':'; after a scheme that takes a host (http, https, ws, wss, ftp) and    *)
(* any slashes, the host must not be empty.                                 *)
(***************************************************************************)
IsSchemeChar(c) == IsAlpha(c) \/ IsDigit(c) \/ c \in {"+", "-", "."}

\* new URL accepting every string
isValidUrlAlways(url) == TRUE

isValidUrl(url) ==
    The({The({
        /\ colon >= 2
        /\ IsAlpha(Ch(u, 1))
        /\ \A n \in 2..(colon - 1) : IsSchemeChar(Ch(u, n))
        /\ (toLowerCase(SubSeq(u, 1, colon - 1)) \in {"http", "https", "ws", "wss", "ftp"}
              => \E host \in (colon + 1)..Len(u) :
                     /\ \A k \in (colon + 1)..(host - 1) : Ch(u, k) \in {"/", "\\"}
                     /\ Ch(u, host) \notin {"/", "\\", "?", "#", ":"})
        : colon \in {IndexOf(u, ":", 1)}})
        : u \in {trim(url)}})

\* String(config.url): what new URL(...) and fetch(...) are handed
UrlString(cfg) == IF Has(cfg, "url") THEN cfg.url ELSE "undefined"

(***************************************************************************)
(* extractMetadata and extractStructuredData                                *)
(***************************************************************************)
Trimmed(seq) == The({[n \in 1..Len(found) |-> trim(found[n])] : found \in {seq}})

extractMetadata(content, url, t) ==
    The({Prop("title", titleMatch # <<>>, trim(titleMatch[1]))
         @@ Prop("description", descMatch # <<>>, trim(descMatch[1]))
         @@ [images    |-> SubSeq(images, 1, IF Len(images) < 10 THEN Len(images) ELSE 10),
             links     |-> SubSeq(links, 1, IF Len(links) < 20 THEN Len(links) ELSE 20),
             timestamp |-> toISOString(t)]
         : titleMatch \in {matchFirst(content, "title")},
           descMatch  \in {matchFirst(content, "description")},
           images     \in {execAll(content, "img")},
           links      \in {execAll(content, "link")}})

extractHeadings(content) == Trimmed(execAll(content, "heading"))
extractLists(content)    == Trimmed(execAll(content, "list"))
extractTables(content)   == Trimmed(execAll(content, "table"))
extractForms(content)    == Trimmed(execAll(content, "form"))

IsOk(parsed) == parsed.ok

\* extractJsonLd with the try around the whole loop: the first block that
\* is not JSON ends the extraction
extractJsonLdStopping(content) ==
    The({LET bad  == Least({n \in 1..Len(parsed) : ~parsed[n].ok})
             kept == IF bad = 0 THEN parsed ELSE SubSeq(parsed, 1, bad - 1)
         IN  [n \in 1..Len(kept) |-> kept[n].v]
         : parsed \in {[n \in 1..Len(blocks) |-> JSONparse(trim(blocks[n]))]
             : blocks \in {execAll(content, "jsonLd")}}})

\* a block whose text JSON.parse rejects is skipped
extractJsonLd(content) ==
    The({[n \in 1..Len(valid) |-> valid[n].v]
         : valid \in {SelectSeq(parsed, IsOk)
             : parsed \in {[n \in 1..Len(blocks) |-> JSONparse(trim(blocks[n]))]
                 : blocks \in {execAll(content, "jsonLd")}}}})

extractStructuredData(str) ==
    The({[headings |-> extractHeadings(content),
         lists    |-> extractLists(content),
         tables   |-> extractTables(content),
         forms    |-> extractForms(content),
         jsonLd   |-> extractJsonLd(content)]
         : content \in {str}})

(***************************************************************************)
(* The arguments scrape is called with and what the network answers.        *)
(***************************************************************************)
\* scrape(undefined) or scrape(null): reading any property of it throws
NullConfig == [nullish |-> TRUE]
IsNullish(cfg) == Has(cfg, "nullish")

NoError == [none |-> TRUE]

\* an optional property: <<>> when it is left out, <<x>> when it is given
Optional(S) == {<<>>} \cup {<<x>> : x \in S}

UrlChoices     == Optional({"https://example.com", "invalid-url"})
TimeoutChoices == Optional({2000})
ModeChoices    == Optional({"html", "structured"})
PromptChoices  ==
    Optional({<<"Summarize", "extract_numbers">>, <<"clean_text", NotAString>>,
              <<"clean_text">>})

\* timeoutThrows: `timeout` is an accessor property whose getter throws the
\* given value (scrape({url, get timeout() { throw ... }}))
Configs ==
    {NullConfig,
     [url |-> "https://example.com", maxRetries |-> 5, selector |-> "p",
      javascript |-> FALSE, extractMode |-> "text", aiPrompts |-> <<>>],
     [url |-> "https://example.com", maxRetries |-> 0, timeout |-> 0,
      javascript |-> TRUE, extractMode |-> "", aiPrompts |-> <<"not_a_real_prompt">>],
     [url |-> "https://example.com", timeoutThrows |-> Err("Error", "")],
     [url |-> "https://example.com", timeoutThrows |-> Err("RangeError", "bad timeout")],
     [url |-> "https://example.com", timeoutThrows |-> NonError("bad timeout")]}
    \cup
    { Prop("url", u # <<>>, u[1]) @@ Prop("timeout", t # <<>>, t[1])
      @@ Prop("extractMode", m # <<>>, m[1]) @@ Prop("aiPrompts", p # <<>>, p[1]) :
        u \in UrlChoices, t \in TimeoutChoices, m \in ModeChoices, p \in PromptChoices }

\* status lines a server answers with (HTTP/2 carries no reason phrase)
StatusLines ==
    {[status |-> 200, statusText |-> "OK"],
     [status |-> 404, statusText |-> "Not Found"],
     [status |-> 503, statusText |-> ""]}

\* what fetch() rejects with when no response arrives: a TypeError whose
\* message is the platform's
FetchRejections ==
    {Err("TypeError", "fetch failed"), Err("TypeError", "Failed to fetch")}

\* what response.text() rejects with when the body stream breaks
TextRejections == {Err("TypeError", "terminated")}

\* a page of eleven images whose src values are written without quotes
ElevenImages ==
    "<img src=a><img src=b><img src=c><img src=d><img src=e><img src=f>"
    \o "<img src=g><img src=h><img src=i><img src=j><img src=k>"

\* a page of three JSON-LD blocks, the second of which is not JSON
ThreeJsonLdBlocks ==
    "<script type=\"application/ld+json\">{\"a\":1}</script>"
    \o "<script type='application/ld+json'>not json</script>"
    \o "<script type=\"application/ld+json\"> [2] </script>"

\* a page of two headings, one list and one table; the first heading's text
\* is set in bold
HeadingsListTable ==
    "<h1><b>A</b></h1><h2>B</h2><ul><li>x</li></ul><table><tr><td>1</td></tr></table>"

Bodies ==
    {"",
     "<title>T</title><h1>A</h1><p>One. Two 2. Three! Four 4? Five.</p><img src=\"t.jpg\"><a href='/x'>x</a>",
     "<h2>B</h2><ul><li>x</li></ul><script type=\"application/ld+json\">{\"a\":1}</script>",
     ElevenImages,
     ThreeJsonLdBlocks,
     HeadingsListTable}

NoResponse == [status |-> 0, statusText |-> ""]
NoResult   == [pending |-> TRUE]
NoTimer    == [state |-> "none", delay |-> 0]
NoRequest  == [none |-> TRUE]
NoReply    == [status |-> 0]

(***************************************************************************)
(* scrape                                                                   *)
(***************************************************************************)
\* What validateConfig(cfg) throws, NoError when it returns: reading a
\* property of undefined or null throws a TypeError (line 264), and reading
\* an accessor property runs its getter (line 267).
validateConfigThrows(cfg) ==
    IF IsNullish(cfg)
    THEN Err("TypeError", "Cannot read properties of undefined (reading 'url')")
    ELSE IF Has(cfg, "timeoutThrows") THEN cfg.timeoutThrows
    ELSE NoError

\* the catch clause's object without its error property
FailureResultNoError(cfg, error, t) ==
    Prop("url", Has(cfg, "url"), cfg.url)
    @@ [success |-> FALSE, content |-> "", metadata |-> [timestamp |-> toISOString(t)]]

\* the catch clause's object with an empty metadata
FailureResultNoTimestamp(cfg, error, t) ==
    Prop("url", Has(cfg, "url"), cfg.url)
    @@ [success |-> FALSE, content |-> "", metadata |-> [k \in {} |-> k],
        error |-> IF error.isError THEN error.message ELSE "Unknown scraping error"]

\* the catch clause's object without the request's url
FailureResultNoUrl(cfg, error, t) ==
    [success |-> FALSE, content |-> "", metadata |-> [timestamp |-> toISOString(t)],
     error |-> IF error.isError THEN error.message ELSE "Unknown scraping error"]

\* the object the catch clause of scrape returns (lines 314-322)
FailureResult(cfg, error, t) ==
    Prop("url", Has(cfg, "url"), cfg.url)
    @@ [success  |-> FALSE,
        content  |-> "",
        metadata |-> [timestamp |-> toISOString(t)],
        error    |-> IF error.isError THEN error.message ELSE "Unknown scraping error"]

\* The catch clause of scrape: how the promise settles when `error` was
\* thrown in the try block.  Reading config.url of a nullish config throws
\* again, and nothing catches that.
ScrapeCatch(cfg, error, t) ==
    IF IsNullish(cfg)
    THEN [pc |-> "rejected",
          value |-> Err("TypeError", "Cannot read properties of undefined (reading 'url')")]
    ELSE [pc |-> "resolved", value |-> FailureResult(cfg, error, t)]

\* fetchContent's catch clause rethrowing whatever it caught
FetchCatchRethrows(error) == error

\* fetchContent's catch clause reporting every failure as a timeout
FetchCatchAllTimeout(error) == Err("Error", "Request timeout")

\* the catch clause of fetchContent (lines 359-367): what it throws on
FetchCatch(error) ==
    IF error.isError /\ error.name = "AbortError"
    THEN Err("Error", "Request timeout")
    ELSE error

\* response.ok without its upper limit
okFrom200(resp) == resp.status >= 200

\* response.ok
ok(resp) == resp.status >= 200 /\ resp.status <= 299

\* scrape honouring `selector`: a selector that matches nothing on the page
\* leaves no content
ScrapeAfterFetchSelecting(cfg, content, t) ==
    The({IF \E n \in 1..Len(validatedConfig.aiPrompts) :
                validatedConfig.aiPrompts[n] = NotAString
         THEN ScrapeCatch(cfg, Err("TypeError", "prompt.toLowerCase is not a function"), t)
         ELSE The({[pc |-> "resolved",
                    value |-> Prop("url", Has(validatedConfig, "url"), validatedConfig.url)
                              @@ [success  |-> TRUE,
                                  content  |-> IF Has(validatedConfig, "selector")
                                               THEN "" ELSE enhancedContent,
                                  metadata |->
                                      extractMetadata(content, UrlString(validatedConfig), t),
                                  structuredData |->
                                      IF validatedConfig.extractMode = "structured"
                                      THEN extractStructuredData(enhancedContent) ELSE Null]]
                   : enhancedContent \in
                       {IF Len(validatedConfig.aiPrompts) > 0
                        THEN enhanceContentWithAI(content, validatedConfig.aiPrompts)
                        ELSE content}})
         : validatedConfig \in {validateConfig(cfg)}})

\* lines 290-311: the stages after fetchContent has returned `content`
ScrapeAfterFetch(cfg, content, t) ==
    The({IF \E n \in 1..Len(validatedConfig.aiPrompts) :
                validatedConfig.aiPrompts[n] = NotAString
         THEN ScrapeCatch(cfg, Err("TypeError", "prompt.toLowerCase is not a function"), t)
         ELSE The({[pc |-> "resolved",
                    value |-> Prop("url", Has(validatedConfig, "url"), validatedConfig.url)
                              @@ [success  |-> TRUE,
                                  content  |-> enhancedContent,
                                  metadata |->
                                      extractMetadata(content, UrlString(validatedConfig), t),
                                  structuredData |->
                                      IF validatedConfig.extractMode = "structured"
                                      THEN extractStructuredData(enhancedContent) ELSE Null]]
                   : enhancedContent \in
                       {IF Len(validatedConfig.aiPrompts) > 0
                        THEN enhanceContentWithAI(content, validatedConfig.aiPrompts)
                        ELSE content}})
         : validatedConfig \in {validateConfig(cfg)}})

\* lines 290-303: the methods scrape calls once fetchContent has returned;
\* a prompt that is not a string makes enhanceContentWithAI throw
StagesAfterFetch(cfg) ==
    The({<<"extractMetadata">>
         \o (IF Len(validatedConfig.aiPrompts) > 0
             THEN <<"enhanceContentWithAI">> ELSE <<>>)
         \o (IF validatedConfig.extractMode = "structured"
                /\ \A n \in 1..Len(validatedConfig.aiPrompts) :
                       validatedConfig.aiPrompts[n] # NotAString
             THEN <<"extractStructuredData">> ELSE <<>>)
         : validatedConfig \in {validateConfig(cfg)}})

Init ==
    /\ pc = [c \in Calls |-> "idle"]
    /\ config = [c \in Calls |-> NullConfig]
    /\ timer = [c \in Calls |-> NoTimer]
    /\ aborted = [c \in Calls |-> FALSE]
    /\ requests = [c \in Calls |-> <<>>]
    /\ response = [c \in Calls |-> NoResponse]
    /\ bodyRead = [c \in Calls |-> FALSE]
    /\ fetchError = [c \in Calls |-> NoError]
    /\ fetched = [c \in Calls |-> <<>>]
    /\ result = [c \in Calls |-> NoResult]
    /\ now = 0
    /\ httpRequest = [c \in Calls |-> NoRequest]
    /\ httpResponse = [c \in Calls |-> NoReply]
    /\ stages = [c \in Calls |-> <<>>]

\* the promise of call c settles
Settle(c, outcome) ==
    \E out \in {outcome} :
        /\ pc' = [pc EXCEPT ![c] = out.pc]
        /\ result' = [result EXCEPT ![c] = out.value]

\* scrape(cfg) is called and runs to its first await that waits for the
\* network: validateConfig, isValidUrl, and the start of fetchContent
\* (new AbortController, setTimeout, fetch).
ScrapeWith(c, cfg) ==
    /\ pc[c] = "idle"
    /\ config' = [config EXCEPT ![c] = cfg]
    /\ IF validateConfigThrows(cfg) # NoError
       THEN /\ Settle(c, ScrapeCatch(cfg, validateConfigThrows(cfg), now))
            /\ stages' = [stages EXCEPT ![c] = <<"validateConfig">>]
            /\ UNCHANGED <<timer, requests>>
       ELSE IF ~isValidUrl(UrlString(validateConfig(cfg)))
       THEN /\ Settle(c, ScrapeCatch(cfg, Err("Error", "Invalid URL format"), now))
            /\ stages' = [stages EXCEPT ![c] = <<"validateConfig", "isValidUrl">>]
            /\ UNCHANGED <<timer, requests>>
       ELSE /\ timer' = [timer EXCEPT ![c] =
                    [state |-> "armed", delay |-> validateConfig(cfg).timeout]]
            /\ requests' = [requests EXCEPT ![c] =
                    Append(@, [method |-> "GET",
                               url |-> UrlString(validateConfig(cfg)),
                               headers |-> DEFAULT_HEADERS])]
            /\ pc' = [pc EXCEPT ![c] = "fetch"]
            /\ stages' = [stages EXCEPT ![c] =
                    <<"validateConfig", "isValidUrl", "fetchContent">>]
            /\ UNCHANGED result
    /\ now' = now + 1
    /\ UNCHANGED http
    /\ UNCHANGED <<aborted, response, bodyRead, fetchError, fetched>>

Scrape(c) == \E cfg \in Configs : ScrapeWith(c, cfg)

\* One AbortController kept on the engine instead of one per call: the
\* timer of call c aborts every request in flight.
TimerFireShared(c) ==
    /\ timer[c].state = "armed"
    /\ pc[c] = "fetch"
    /\ timer' = [timer EXCEPT ![c].state = "fired"]
    /\ aborted' = [d \in Calls |-> aborted[d] \/ pc[d] = "fetch"]
    /\ fetchError' = [d \in Calls |->
           IF pc[d] = "fetch" THEN Err("AbortError", "This operation was aborted")
           ELSE fetchError[d]]
    /\ pc' = [d \in Calls |-> IF pc[d] = "fetch" THEN "resolved" ELSE pc[d]]
    /\ result' = [d \in Calls |->
           IF pc[d] = "fetch"
           THEN FailureResult(config[d], Err("Error", "Request timeout"), now)
           ELSE result[d]]
    /\ now' = now + 1
    /\ UNCHANGED <<http, stages>>
    /\ UNCHANGED <<config, requests, response, bodyRead, fetched>>

\* The deadline timer fires while fetch() is pending: controller.abort()
\* rejects the fetch with an AbortError, fetchContent's catch turns it into
\* 'Request timeout', and scrape's catch into the failure result.
TimerFire(c) ==
    /\ timer[c].state = "armed"
    /\ pc[c] = "fetch"
    /\ timer' = [timer EXCEPT ![c].state = "fired"]
    /\ aborted' = [aborted EXCEPT ![c] = TRUE]
    /\ fetchError' = [fetchError EXCEPT ![c] = Err("AbortError", "This operation was aborted")]
    /\ Settle(c, ScrapeCatch(config[c],
                 FetchCatch(Err("AbortError", "This operation was aborted")), now))
    /\ now' = now + 1
    /\ UNCHANGED <<http, stages>>
    /\ UNCHANGED <<config, requests, response, bodyRead, fetched>>

\* fetchContent without its two clearTimeout calls
ClearedNever(t) == t

\* clearTimeout(timeoutId): a timer that has fired stays fired
Cleared(t) == IF t.state = "armed" THEN [t EXCEPT !.state = "cleared"] ELSE t

\* fetchContent without the response.ok test of line 353: the body of an
\* error page is read and scraped like any other
FetchResponseIgnoringStatus(c) ==
    /\ pc[c] = "fetch"
    /\ \E resp \in StatusLines :
        /\ response' = [response EXCEPT ![c] = resp]
        /\ bodyRead' = [bodyRead EXCEPT ![c] = TRUE]
        /\ pc' = [pc EXCEPT ![c] = "text"]
        /\ UNCHANGED result
    /\ timer' = [timer EXCEPT ![c] = Cleared(@)]
    /\ now' = now + 1
    /\ UNCHANGED <<http, stages>>
    /\ UNCHANGED <<config, aborted, requests, fetchError, fetched>>

\* fetch() resolves with a response (its status line and headers): the
\* timer is cleared (line 351); a status outside 200..299 is thrown as an
\* Error, otherwise response.text() is called and awaited.
FetchResponse(c) ==
    /\ pc[c] = "fetch"
    /\ \E resp \in StatusLines :
        /\ response' = [response EXCEPT ![c] = resp]
        /\ IF ~ok(resp)
           THEN /\ Settle(c, ScrapeCatch(config[c],
                        FetchCatch(Err("Error", "HTTP " \o ToString(resp.status)
                                                \o ": " \o resp.statusText)), now))
                /\ UNCHANGED bodyRead
           ELSE /\ bodyRead' = [bodyRead EXCEPT ![c] = TRUE]
                /\ pc' = [pc EXCEPT ![c] = "text"]
                /\ UNCHANGED result
    /\ timer' = [timer EXCEPT ![c] = Cleared(@)]
    /\ now' = now + 1
    /\ UNCHANGED <<http, stages>>
    /\ UNCHANGED <<config, aborted, requests, fetchError, fetched>>

\* fetchContent retried after a network failure, up to maxRetries requests
FetchFailRetries(c) ==
    /\ pc[c] = "fetch"
    /\ \E e \in FetchRejections :
        /\ fetchError' = [fetchError EXCEPT ![c] = e]
        /\ IF Len(requests[c]) < validateConfig(config[c]).maxRetries
           THEN /\ requests' = [requests EXCEPT ![c] = Append(@, @[1])]
                /\ UNCHANGED <<pc, result>>
           ELSE /\ Settle(c, ScrapeCatch(config[c], FetchCatch(e), now))
                /\ UNCHANGED requests
    /\ timer' = [timer EXCEPT ![c] = Cleared(@)]
    /\ now' = now + 1
    /\ UNCHANGED <<http, stages>>
    /\ UNCHANGED <<config, aborted, response, bodyRead, fetched>>

\* fetch() rejects before any response (DNS failure, refused connection)
FetchFail(c) ==
    /\ pc[c] = "fetch"
    /\ \E e \in FetchRejections :
        /\ fetchError' = [fetchError EXCEPT ![c] = e]
        /\ Settle(c, ScrapeCatch(config[c], FetchCatch(e), now))
    /\ timer' = [timer EXCEPT ![c] = Cleared(@)]
    /\ now' = now + 1
    /\ UNCHANGED <<http, stages>>
    /\ UNCHANGED <<config, aborted, requests, response, bodyRead, fetched>>

\* response.text() resolves with the whole body; the remaining stages of
\* scrape are synchronous text scans and run to the return statement.
TextDoneWith(c, body) ==
    /\ pc[c] = "text"
    /\ fetched' = [fetched EXCEPT ![c] = <<body>>]
    /\ Settle(c, ScrapeAfterFetch(config[c], body, now))
    /\ stages' = [stages EXCEPT ![c] = @ \o StagesAfterFetch(config[c])]
    /\ now' = now + 1
    /\ UNCHANGED http
    /\ UNCHANGED <<config, timer, aborted, requests, response, bodyRead, fetchError>>

TextDone(c) == \E body \in Bodies : TextDoneWith(c, body)

\* response.text() rejects: the connection broke while the body was read
TextFail(c) ==
    /\ pc[c] = "text"
    /\ \E e \in TextRejections :
        /\ fetchError' = [fetchError EXCEPT ![c] = e]
        /\ Settle(c, ScrapeCatch(config[c], FetchCatch(e), now))
    /\ timer' = [timer EXCEPT ![c] = Cleared(@)]
    /\ now' = now + 1
    /\ UNCHANGED <<http, stages>>
    /\ UNCHANGED <<config, aborted, requests, response, bodyRead, fetched>>

Step(c) ==
    \/ Scrape(c)
    \/ TimerFire(c)
    \/ FetchResponse(c)
    \/ FetchFail(c)
    \/ TextDone(c)
    \/ TextFail(c)

Next == \E c \in Active : Step(c)

Spec == Init /\ [][Next]_vars

\* The event loop runs a call that was made and a timer callback that is
\* due; nothing obliges the server to answer or to finish a body.
FairSpec ==
    /\ Spec
    /\ \A c \in Active : WF_vars(Scrape(c)) /\ WF_vars(TimerFire(c))

(***************************************************************************)
(* Two scrape calls in flight on one engine, their steps interleaved.       *)
(***************************************************************************)
ConcConfigs ==
    {[url |-> "https://example.com"],
     [url |-> "https://example.com", timeout |-> 2000, extractMode |-> "structured"],
     [url |-> "invalid-url"]}

ConcBodies == {"", HeadingsListTable}

ConcScrape(c)   == \E cfg \in ConcConfigs : ScrapeWith(c, cfg)
ConcTextDone(c) == \E body \in ConcBodies : TextDoneWith(c, body)

ConcStep(c) ==
    \/ ConcScrape(c)
    \/ TimerFire(c)
    \/ FetchResponse(c)
    \/ FetchFail(c)
    \/ ConcTextDone(c)
    \/ TextFail(c)

ConcNext == \E c \in Calls : ConcStep(c)

ConcSpec == Init /\ [][ConcNext]_vars

(***************************************************************************)
(* The API route: POST parses the request body, calls scrape and answers    *)
(* with the result.                                                         *)
(***************************************************************************)
Undefined == [undefined |-> TRUE]

\* body.key of a parsed JSON value: a property of an object, undefined of
\* anything else
JsonGet(v, key) ==
    IF Has(v, "obj") /\ \E n \in 1..Len(v.obj) : v.obj[n].k = key
    THEN v.obj[CHOOSE n \in 1..Len(v.obj) : v.obj[n].k = key].v
    ELSE Undefined

\* config?.key
JsonGetOptional(v, key) ==
    IF v = Undefined \/ v = [lit |-> "null"] THEN Undefined ELSE JsonGet(v, key)

\* the number a run of digits stands for
DigitsValue(text) ==
    LET value[n \in 0..Len(text)] ==
            IF n = 0 THEN 0
            ELSE 10 * value[n - 1] + (IndexOf(DigitChars, Ch(text, n), 1) - 1)
    IN  value[Len(text)]

\* !v is false
Truthy(v) ==
    CASE Has(v, "str") -> v.str # ""
      [] Has(v, "num") -> DigitsValue(v.num) # 0
      [] Has(v, "lit") -> v.lit = "true"
      [] Has(v, "undefined") -> FALSE
      [] OTHER -> TRUE

\* the JavaScript value of a parsed string, number or array of them
JsValue(v) ==
    CASE Has(v, "str") -> v.str
      [] Has(v, "num") -> DigitsValue(v.num)
      [] Has(v, "arr") ->
             [n \in 1..Len(v.arr) |->
                 IF Has(v.arr[n], "str") THEN v.arr[n].str ELSE NotAString]
      [] OTHER -> v

\* lines 25-30: the configuration the route calls scrape with
scrapingConfig(body) ==
    The({[url |-> JsValue(JsonGet(body, "url")),
          timeout |-> IF Truthy(JsonGetOptional(cfg, "timeout"))
                      THEN JsValue(JsonGetOptional(cfg, "timeout")) ELSE 10000,
          extractMode |-> IF Truthy(JsonGetOptional(cfg, "extractMode"))
                          THEN JsValue(JsonGetOptional(cfg, "extractMode")) ELSE "text",
          aiPrompts |-> IF Truthy(JsonGetOptional(cfg, "aiPrompts"))
                        THEN JsValue(JsonGetOptional(cfg, "aiPrompts")) ELSE <<>>]
         : cfg \in {JsonGet(body, "config")}})

\* the bodies a client posts
RequestBodies ==
    {"not json",
     "null",
     "{}",
     "[]",
     "{\"url\":\"\"}",
     "{\"url\":\"https://example.com\"}",
     "{\"url\":\"https://example.com\",\"config\":{\"aiPrompts\":[\"clean_text\"]}}",
     "{\"url\":\"invalid-url\"}",
     "{\"url\":\"https://example.com\",\"config\":null}",
     "{\"url\":\"https://example.com\",\"config\":{\"timeout\":2000,"
         \o "\"extractMode\":\"structured\",\"aiPrompts\":[\"summarize\"]}}"}

\* new Response(JSON.stringify(value), {status}): value has no property
\* that is undefined, so every property of it is in the text
Reply(status, value) == [status |-> status, body |-> value]

\* the catch clause's answer (lines 43-49)
ErrorReply(error) ==
    Reply(500, [success |-> FALSE,
                error |-> IF error.isError THEN error.message ELSE "Unknown error"])

\* a POST arrives and the handler waits for request.json()
PostReceived(c) ==
    /\ pc[c] = "idle"
    /\ httpRequest[c] = NoRequest
    /\ \E text \in RequestBodies : httpRequest' = [httpRequest EXCEPT ![c] = [text |-> text]]
    /\ UNCHANGED <<pc, config, timer, aborted, requests, response, bodyRead,
                   fetchError, fetched, result, now, httpResponse, stages>>

\* request.json() settles: the handler answers 500 or 400, or calls scrape
PostBody(c) ==
    /\ httpRequest[c] # NoRequest
    /\ httpResponse[c] = NoReply
    /\ pc[c] = "idle"
    /\ \E body \in {JSONparse(httpRequest[c].text)} :
          IF ~body.ok
          THEN /\ httpResponse' = [httpResponse EXCEPT ![c] =
                      ErrorReply(Err("SyntaxError", "Unexpected token in JSON"))]
               /\ UNCHANGED <<pc, config, timer, aborted, requests, response, bodyRead,
                              fetchError, fetched, result, now, httpRequest, stages>>
          ELSE IF body.v = [lit |-> "null"]
          THEN /\ httpResponse' = [httpResponse EXCEPT ![c] =
                      ErrorReply(Err("TypeError",
                          "Cannot destructure property 'url' of 'body' as it is null."))]
               /\ UNCHANGED <<pc, config, timer, aborted, requests, response, bodyRead,
                              fetchError, fetched, result, now, httpRequest, stages>>
          ELSE IF ~Truthy(JsonGet(body.v, "url"))
          THEN /\ httpResponse' = [httpResponse EXCEPT ![c] =
                      Reply(400, [error |-> "URL is required"])]
               /\ UNCHANGED <<pc, config, timer, aborted, requests, response, bodyRead,
                              fetchError, fetched, result, now, httpRequest, stages>>
          ELSE ScrapeWith(c, scrapingConfig(body.v))

\* answering 500 when the result says success false
PostReplyFailureAs500(c) ==
    /\ httpRequest[c] # NoRequest
    /\ httpResponse[c] = NoReply
    /\ pc[c] \in {"resolved", "rejected"}
    /\ httpResponse' = [httpResponse EXCEPT ![c] =
           IF pc[c] = "resolved" /\ result[c].success
           THEN Reply(200, result[c])
           ELSE ErrorReply(Err("Error", "Scraping failed"))]
    /\ UNCHANGED <<pc, config, timer, aborted, requests, response, bodyRead,
                   fetchError, fetched, result, now, httpRequest, stages>>

\* scrape has settled: the handler answers with the result (lines 35-38),
\* or from its catch clause with what scrape rejected with
PostReply(c) ==
    /\ httpRequest[c] # NoRequest
    /\ httpResponse[c] = NoReply
    /\ pc[c] \in {"resolved", "rejected"}
    /\ httpResponse' = [httpResponse EXCEPT ![c] =
           IF pc[c] = "resolved" THEN Reply(200, result[c]) ELSE ErrorReply(result[c])]
    /\ UNCHANGED <<pc, config, timer, aborted, requests, response, bodyRead,
                   fetchError, fetched, result, now, httpRequest, stages>>

ApiStep(c) ==
    \/ PostReceived(c)
    \/ PostBody(c)
    \/ TimerFire(c)
    \/ FetchResponse(c)
    \/ FetchFail(c)
    \/ TextDone(c)
    \/ TextFail(c)
    \/ PostReply(c)

ApiNext == \E c \in Active : ApiStep(c)

ApiSpec == Init /\ [][ApiNext]_vars

(***************************************************************************)
(* The text functions on their own: extractTextContent and applyPrompt are  *)
(* pure, so they are run on every text of up to MaxTokens pieces.  The text *)
(* is kept in fetched, the function's value in result.                      *)
(***************************************************************************)
MaxTokens == 3

TextTokens ==
    {"<", ">", " ", "&nb", "sp;", "<!--", "-->", "<script>", "</script>", "1. b! ", "."}

PromptNames ==
    {"summarize", "SUMMARIZE", "clean_text", "not_a_real_prompt", "summarise", ""}

\* the text built so far
Input(c) == IF fetched[c] = <<>> THEN "" ELSE fetched[c][1]

\* the caller's text grows by one piece
Type(c) ==
    /\ pc[c] = "idle"
    /\ now < MaxTokens
    /\ \E tok \in TextTokens : fetched' = [fetched EXCEPT ![c] = <<Input(c) \o tok>>]
    /\ now' = now + 1
    /\ UNCHANGED <<http, stages>>
    /\ UNCHANGED <<pc, config, timer, aborted, requests, response, bodyRead,
                   fetchError, result>>

\* extractTextContent(html), and once more on its own value
Normalize(c) ==
    /\ \/ /\ pc[c] = "idle"
          /\ pc' = [pc EXCEPT ![c] = "normalized"]
          /\ result' = [result EXCEPT ![c] =
                 [html |-> Input(c), text |-> extractTextContent(Input(c))]]
       \/ /\ pc[c] = "normalized"
          /\ pc' = [pc EXCEPT ![c] = "normalized twice"]
          /\ result' = [result EXCEPT ![c] =
                 [html |-> result[c].text, text |-> extractTextContent(result[c].text)]]
    /\ UNCHANGED <<http, stages>>
    /\ UNCHANGED <<config, timer, aborted, requests, response, bodyRead,
                   fetchError, fetched, now>>

\* applyPrompt(content, prompt)
Prompt(c) ==
    /\ pc[c] = "idle"
    /\ \E prompt \in PromptNames :
           result' = [result EXCEPT ![c] =
               [content |-> Input(c), prompt |-> prompt,
                text |-> applyPrompt(Input(c), prompt)]]
    /\ pc' = [pc EXCEPT ![c] = "prompted"]
    /\ UNCHANGED <<http, stages>>
    /\ UNCHANGED <<config, timer, aborted, requests, response, bodyRead,
                   fetchError, fetched, now>>

TextNext == \E c \in Active : Type(c) \/ Normalize(c) \/ Prompt(c)

TextSpec == Init /\ [][TextNext]_vars

(***************************************************************************)
(* extractTextContent on pages built from block delimiters: script and     *)
(* style tags, comment delimiters, and one letter of text.                 *)
(***************************************************************************)
MaxBlocks == 3

BlockTokens ==
    {"<script>", "</script>", "</script >", "<style>", "</style>",
     "<!--", "-->", "M"}

\* the page grows by one delimiter or one letter
BlockType(c) ==
    /\ pc[c] = "idle"
    /\ now < MaxBlocks
    /\ \E tok \in BlockTokens : fetched' = [fetched EXCEPT ![c] = <<Input(c) \o tok>>]
    /\ now' = now + 1
    /\ UNCHANGED <<http, stages>>
    /\ UNCHANGED <<pc, config, timer, aborted, requests, response, bodyRead,
                   fetchError, result>>

BlockNext == \E c \in Active : BlockType(c) \/ Normalize(c)

BlockSpec == Init /\ [][BlockNext]_vars

(***************************************************************************)
(* Two calls in a row whose configurations differ only in maxRetries,      *)
(* selector and javascript: call 1 runs as in Spec, then call 2 is made    *)
(* and the network treats it as it treated call 1.                         *)
(***************************************************************************)
InertFields == {"maxRetries", "selector", "javascript"}

InertValues ==
    {[k \in {} |-> k],
     [maxRetries |-> 1, selector |-> "h1", javascript |-> FALSE],
     [maxRetries |-> 0, selector |-> "", javascript |-> TRUE]}

Settled(c) == pc[c] \in {"resolved", "rejected"}

\* scrape is called again with other values of the three fields
PairScrape ==
    /\ Settled(1)
    /\ ~IsNullish(config[1])
    /\ \E inert \in InertValues :
           ScrapeWith(2, inert @@ [key \in DOMAIN config[1] \ InertFields |->
                                     config[1][key]])

\* the network event of call 1 happens to call 2
PairEvent ==
    \/ timer[1].state = "fired" /\ TimerFire(2)
    \/ FetchResponse(2) /\ response'[2] = response[1]
    \/ response[1] = NoResponse /\ FetchFail(2) /\ fetchError'[2] = fetchError[1]
    \/ fetched[1] # <<>> /\ TextDoneWith(2, fetched[1][1])
    \/ TextFail(2) /\ fetchError'[2] = fetchError[1]

PairNext ==
    \/ pc[2] = "idle" /\ Step(1)
    \/ PairScrape
    \/ PairEvent

PairSpec == Init /\ [][PairNext]_vars

(***************************************************************************)
(* extract_key_points as the first prompt of the pipeline, on pages built   *)
(* from line breaks, markers, a tag, and runs of 50 and 49 characters.      *)
(***************************************************************************)
MaxPieces == 3

KeyTokens ==
    {"\n", " ", ":", "-", "<p>",
     "xxxxxxxxxxxxxxxxxxxxxxxxxxxxxxxxxxxxxxxxxxxxxxxxxx",
     "xxxxxxxxxxxxxxxxxxxxxxxxxxxxxxxxxxxxxxxxxxxxxxxx:"}

\* the page grows by one piece
KeyType(c) ==
    /\ pc[c] = "idle"
    /\ now < MaxPieces
    /\ \E tok \in KeyTokens : fetched' = [fetched EXCEPT ![c] = <<Input(c) \o tok>>]
    /\ now' = now + 1
    /\ UNCHANGED <<http, stages>>
    /\ UNCHANGED <<pc, config, timer, aborted, requests, response, bodyRead,
                   fetchError, result>>

\* enhanceContentWithAI(content, ['extract_key_points'])
KeyPoints(c) ==
    /\ pc[c] = "idle"
    /\ result' = [result EXCEPT ![c] =
           [content |-> Input(c), prompt |-> "extract_key_points",
            text |-> enhanceContentWithAI(Input(c), <<"extract_key_points">>)]]
    /\ pc' = [pc EXCEPT ![c] = "prompted"]
    /\ UNCHANGED <<http, stages>>
    /\ UNCHANGED <<config, timer, aborted, requests, response, bodyRead,
                   fetchError, fetched, now>>

KeyNext == \E c \in Active : KeyType(c) \/ KeyPoints(c)

KeySpec == Init /\ [][KeyNext]_vars

(***************************************************************************)
(* Properties of scrape's results.                                          *)
(***************************************************************************)
Resolved(c) == pc[c] = "resolved"
Failed(c)   == Resolved(c) /\ result[c].success = FALSE
Started(c)  == pc[c] # "idle"

\* C1: scrape is total: whatever the argument (a missing configuration
\* object included) and whatever the network does, the promise never
\* rejects, and what it resolves to is tagged success true or false.
C1_ScrapeNeverRejects ==
    \A c \in Calls :
        /\ pc[c] # "rejected"
        /\ Resolved(c) => Has(result[c], "success") /\ result[c].success \in BOOLEAN

\* C2: in every resolved result, success is true if and only if the result
\* has no error property.
C2_SuccessIffNoError ==
    \A c \in Calls :
        Resolved(c) => (result[c].success = TRUE <=> ~Has(result[c], "error"))

\* a failure result, which has its error property
C2_FailureCarriesError ==
    \E c \in Calls : Failed(c) /\ Has(result[c], "error")

\* C3: every resolved result, success or failure, has a metadata object
\* whose timestamp is set.
C3_TimestampAlwaysSet ==
    \A c \in Calls :
        Resolved(c) =>
            /\ Has(result[c], "metadata")
            /\ Has(result[c].metadata, "timestamp")
            /\ result[c].metadata.timestamp \in STRING
            /\ Len(result[c].metadata.timestamp) > 0

\* a failure on a 404 response, with its timestamp
C3_FailureHasTimestamp ==
    \E c \in Calls :
        Failed(c) /\ response[c].status = 404 /\ Has(result[c].metadata, "timestamp")

\* C4: every resolved result's content is a string; on failure content is
\* the empty string, url is the request's url, metadata holds the timestamp
\* alone, and the result has no structured data or other property.
C4_FailureIsBare ==
    \A c \in Calls :
        Resolved(c) =>
            /\ Has(result[c], "content")
            /\ result[c].content \in STRING
            /\ result[c].success = FALSE =>
                /\ result[c].content = ""
                /\ Has(result[c], "url") <=> Has(config[c], "url")
                /\ Has(config[c], "url") => result[c].url = config[c].url
                /\ DOMAIN result[c].metadata = {"timestamp"}
                /\ DOMAIN result[c] \subseteq {"success", "url", "content", "metadata", "error"}

\* a failure after the whole body of a page was fetched, in structured mode
C4_FailureAfterFetch ==
    \E c \in Calls :
        /\ Failed(c)
        /\ fetched[c] # <<>>
        /\ Len(fetched[c][1]) > 0
        /\ Has(config[c], "extractMode")
        /\ config[c].extractMode = "structured"
        /\ result[c].url = "https://example.com"

\* C5: every failure result's error is a non-empty string, whatever was
\* thrown (an Error with any message, or a value that is not an Error).
C5_ErrorNeverEmpty ==
    \A c \in Calls :
        Failed(c) =>
            /\ Has(result[c], "error")
            /\ result[c].error \in STRING
            /\ result[c].error # ""

\* C6: when the request's url has no scheme (so does not parse as an
\* absolute URL), the call fails with an error, and at no point of it is a
\* request issued or a deadline timer started.
C6_InvalidUrlNoNetwork ==
    \A c \in Calls :
        (Started(c) /\ ~IsNullish(config[c]) /\ ~Includes(UrlString(config[c]), ":")) =>
            /\ Failed(c)
            /\ Has(result[c], "error")
            /\ requests[c] = <<>>
            /\ timer[c] = NoTimer
            /\ ~aborted[c]

\* scrape({url: "invalid-url"}) has failed on the URL's format
C6_InvalidUrlRejected ==
    \E c \in Calls :
        /\ Has(config[c], "url")
        /\ config[c].url = "invalid-url"
        /\ Failed(c)
        /\ result[c].error = "Invalid URL format"

\* C7: when the deadline timer fires before the response, the request is
\* aborted and the call fails with an error that names the timeout, not
\* the abort error's own message.
C7_TimeoutAbortsAndIsNamed ==
    \A c \in Calls :
        timer[c].state = "fired" =>
            /\ aborted[c]
            /\ response[c] = NoResponse
            /\ Failed(c)
            /\ result[c].error = "Request timeout"
            /\ result[c].error # fetchError[c].message

\* the timer of a call has fired while its request was in flight
C7_TimerFired ==
    \E c \in Calls : timer[c].state = "fired" /\ Len(requests[c]) = 1 /\ Resolved(c)

\* C8: the deadline bounds the whole fetch, the body included, so every
\* call that issued its request eventually resolves even if the server
\* stalls at any point of the response.
C8_EveryFetchResolves ==
    \A c \in Calls : (pc[c] = "fetch") ~> Resolved(c)

\* C9: when a response with a status outside 200..299 arrives, the call
\* fails with an error that carries the status code and the reason, and the
\* body is neither read nor returned.
C9_HttpStatusFailure ==
    \A c \in Calls :
        (response[c] # NoResponse /\ response[c].status \notin 200..299) =>
            /\ Failed(c)
            /\ result[c].error =
                   "HTTP " \o ToString(response[c].status) \o ": " \o response[c].statusText
            /\ ~bodyRead[c]
            /\ fetched[c] = <<>>
            /\ result[c].content = ""

\* a 404 response was answered with a failure
C9_NotFoundReported ==
    \E c \in Calls :
        response[c].status = 404 /\ Failed(c) /\ result[c].error = "HTTP 404: Not Found"

\* C10: when fetch fails before any response and the deadline timer has not
\* fired, the call fails with the failure's own message, not as a timeout.
C10_NetworkErrorMessage ==
    \A c \in Calls :
        (fetchError[c] # NoError /\ response[c] = NoResponse /\ timer[c].state # "fired") =>
            /\ Failed(c)
            /\ result[c].error = fetchError[c].message
            /\ result[c].error # "Request timeout"

\* fetch has rejected with 'fetch failed' before any response
C10_ConnectionFailed ==
    \E c \in Calls :
        /\ fetchError[c] # NoError
        /\ fetchError[c].message = "fetch failed"
        /\ response[c] = NoResponse
        /\ timer[c].state = "cleared"
        /\ Failed(c)

\* C11: a scrape call sends at most one request, a GET, and a call that
\* failed (timeout, network error, status outside 200..299) has sent no
\* second one, whatever maxRetries is.
C11_AtMostOneRequest ==
    \A c \in Calls :
        /\ Len(requests[c]) <= 1
        /\ \A n \in 1..Len(requests[c]) : requests[c][n].method = "GET"
        /\ (Failed(c) /\ fetchError[c] # NoError) => Len(requests[c]) = 1

\* a call with maxRetries 5 whose fetch was rejected by the network
C11_FailedWithRetriesLeft ==
    \E c \in Calls :
        /\ Failed(c)
        /\ Has(config[c], "maxRetries") /\ config[c].maxRetries = 5
        /\ fetchError[c] \in FetchRejections
        /\ Len(requests[c]) = 1

Succeeded(c) == Resolved(c) /\ result[c].success = TRUE

\* the number of <tag ...> opening tags in the markup s (open is "<tag")
TagCount(s, open) ==
    Cardinality({i \in 1..Len(s) :
        EqCIAt(s, i, open) /\ Ch(s, i + Len(open)) \in {" ", "\t", "\n", "/", ">"}})

IsPrefix(short, long) ==
    Len(short) <= Len(long) /\ short = SubSeq(long, 1, Len(short))

\* C12: for every fetched page metadata.images has at most 10 entries and
\* metadata.links at most 20, the first ones in document order; a page
\* with more than 10 <img> tags gives exactly 10 images and a page with
\* more than 20 <a> tags exactly 20 links.
C12_ImagesAndLinksCapped ==
    \A c \in Calls :
        Succeeded(c) =>
            /\ Len(result[c].metadata.images) <= 10
            /\ Len(result[c].metadata.links) <= 20
            /\ IsPrefix(result[c].metadata.images, execAll(fetched[c][1], "img"))
            /\ IsPrefix(result[c].metadata.links, execAll(fetched[c][1], "link"))
            /\ TagCount(fetched[c][1], "<img") > 10 => Len(result[c].metadata.images) = 10
            /\ TagCount(fetched[c][1], "<a") > 20 => Len(result[c].metadata.links) = 20

\* the validated extractMode and aiPrompts of call c
Mode(c)    == validateConfig(config[c]).extractMode
Prompts(c) == validateConfig(config[c]).aiPrompts

\* C13: when extractMode is 'html' and the fetch succeeds, the result's
\* content is the fetched text unchanged, whatever aiPrompts holds.
C13_HtmlModeIsRaw ==
    \A c \in Calls :
        (Succeeded(c) /\ Mode(c) = "html") => result[c].content = fetched[c][1]

\* C14: when extractMode is 'text' and aiPrompts is empty, the content of
\* a success result is the normalized plain text of the fetched page
\* (scripts, styles, comments and tags removed, whitespace collapsed).
C14_TextModeIsNormalized ==
    \A c \in Calls :
        (Succeeded(c) /\ Mode(c) = "text" /\ Prompts(c) = <<>>) =>
            result[c].content = extractTextContent(fetched[c][1])

\* C15: normalization is idempotent: extractTextContent of its own value
\* is that value, which holds no tag, comment or &nbsp; any more.
C15_NormalizeIdempotent ==
    \A c \in Calls :
        pc[c] = "normalized twice" =>
            /\ result[c].text = result[c].html
            /\ ~Includes(result[c].text, "&nbsp;")
            /\ \A i \in 1..Len(result[c].text) : TagEnd(result[c].text, i) = 0

\* a text that starts with an entity has been normalized twice
C15_EntityNormalizedTwice ==
    \E c \in Calls :
        /\ pc[c] = "normalized twice"
        /\ Input(c) = "&nbsp;."
        /\ result[c].text = "."

\* the names applyPrompt has a case for; it compares the name in lower case
Registry ==
    {"summarize", "extract_key_points", "clean_text", "extract_numbers", "extract_emails"}

\* C16: applying a prompt whose name is not in the registry returns the
\* content unchanged, for every content.
C16_UnknownPromptIsIdentity ==
    \A c \in Calls :
        (pc[c] = "prompted" /\ toLowerCase(result[c].prompt) \notin Registry) =>
            result[c].text = result[c].content

\* an unknown prompt applied to a text that 'clean_text' would change
C16_UnknownPromptApplied ==
    \E c \in Calls :
        /\ pc[c] = "prompted"
        /\ result[c].prompt = "not_a_real_prompt"
        /\ result[c].content = " 1. b! <"
        /\ result[c].text = " 1. b! <"

\* pn(...p2(p1(text))...) for the prompts p1..pn
RECURSIVE ApplyAll(_, _)
ApplyAll(text, prompts) ==
    IF prompts = <<>> THEN text
    ELSE ApplyAll(applyPrompt(text, Head(prompts)), Tail(prompts))

\* C17: with a non-empty aiPrompts p1..pn the content of a success result
\* is pn(...p2(p1(normalized fetched text))...): each transform once, in
\* the order given, on the value of the one before it.
C17_PromptsComposeInOrder ==
    \A c \in Calls :
        (Succeeded(c) /\ Prompts(c) # <<>>) =>
            result[c].content = ApplyAll(extractTextContent(fetched[c][1]), Prompts(c))

\* summarize, then extract_numbers, on a page whose fourth sentence holds
\* a number: only the number of the first three sentences is left
C17_SummarizeThenNumbers ==
    \E c \in Calls :
        /\ Succeeded(c)
        /\ Prompts(c) = <<"Summarize", "extract_numbers">>
        /\ Includes(fetched[c][1], "Two 2. Three! Four 4? Five.")
        /\ result[c].content = "2"

\* A sentence of text is a longest run of characters other than '.', '!'
\* and '?' that is not blank.  SentenceStarts is where the sentences begin,
\* SentenceAt(text, i) the sentence that begins at i without the blanks
\* around it, NthStart the n-th beginning from the left.
IsTerminator(ch) == ch \in {".", "!", "?"}

SentenceAt(text, i) ==
    trim(SubSeq(text, i,
        CHOOSE j \in i..Len(text) :
            /\ \A k \in i..j : ~IsTerminator(Ch(text, k))
            /\ j = Len(text) \/ IsTerminator(Ch(text, j + 1))))

SentenceStarts(text) ==
    {i \in 1..Len(text) :
        /\ ~IsTerminator(Ch(text, i))
        /\ i = 1 \/ IsTerminator(Ch(text, i - 1))
        /\ SentenceAt(text, i) # ""}

NthStart(text, n) ==
    CHOOSE i \in SentenceStarts(text) :
        Cardinality({j \in SentenceStarts(text) : j < i}) = n - 1

Min(a, b) == IF a < b THEN a ELSE b

\* C18: for every text the summary ends with '.' and is made of at most 3
\* sentences, the first sentences of the text in their order (3 of them
\* when the text has more).
C18_SummaryIsFirstThreeSentences ==
    \A c \in Calls :
        (pc[c] = "prompted" /\ toLowerCase(result[c].prompt) = "summarize") =>
            /\ Ch(result[c].text, Len(result[c].text)) = "."
            /\ Cardinality(SentenceStarts(result[c].text))
                   = Min(3, Cardinality(SentenceStarts(result[c].content)))
            /\ \A n \in 1..Cardinality(SentenceStarts(result[c].text)) :
                   SentenceAt(result[c].text, NthStart(result[c].text, n))
                       = SentenceAt(result[c].content, NthStart(result[c].content, n))

\* a text of six sentences has been summarized to its first three
C18_SixSentencesSummarized ==
    \E c \in Calls :
        /\ pc[c] = "prompted"
        /\ result[c].prompt = "summarize"
        /\ result[c].content = "1. b! 1. b! 1. b! "
        /\ result[c].text = "1.  b.  1."

\* C19: a result has a structuredData field exactly when the request's
\* extractMode is 'structured' and the scrape succeeded.
C19_StructuredDataOnlyWhenStructured ==
    \A c \in Calls :
        Resolved(c) =>
            (Has(result[c], "structuredData")
                <=> (result[c].success /\ Mode(c) = "structured"))

\* every aiPrompts entry of call c is a string
PromptsAreStrings(c) == \A n \in 1..Len(Prompts(c)) : Prompts(c)[n] # NotAString

\* call c, in structured mode, has read a page with a JSON-LD block that is
\* not JSON
StructuredPageRead(c) ==
    /\ Resolved(c)
    /\ fetched[c] # <<>>
    /\ Includes(fetched[c][1], "not json</script>")
    /\ PromptsAreStrings(c)
    /\ Mode(c) = "structured"

\* the values of the JSON-LD blocks that are JSON, in document order, of a
\* page with a block that is not JSON
ValidJsonLd(page) ==
    IF page = ThreeJsonLdBlocks
    THEN <<[obj |-> <<[k |-> "a", v |-> [num |-> "1"]]>>], [arr |-> <<[num |-> "2"]>>]>>
    ELSE <<>>

HeadingCount(page) ==
    TagCount(page, "<h1") + TagCount(page, "<h2") + TagCount(page, "<h3")
    + TagCount(page, "<h4") + TagCount(page, "<h5") + TagCount(page, "<h6")

ListCount(page)  == TagCount(page, "<ul") + TagCount(page, "<ol")
TableCount(page) == TagCount(page, "<table")

\* C21: in structured mode structuredData.headings, lists and tables have
\* one entry for each heading, each ul/ol block and each table of the
\* fetched page (none where the page has none): a page of 2 headings, 1
\* list and 1 table gives the lengths 2, 1 and 1.
C21_OneEntryPerElement ==
    \A c \in Calls :
        (Succeeded(c) /\ Mode(c) = "structured") =>
            /\ Len(result[c].structuredData.headings) = HeadingCount(fetched[c][1])
            /\ Len(result[c].structuredData.lists) = ListCount(fetched[c][1])
            /\ Len(result[c].structuredData.tables) = TableCount(fetched[c][1])

\* a result without the time it was made at
Untimed(r) == [r EXCEPT !.metadata.timestamp = ""]

\* What call c resolves to when it runs alone with its own configuration
\* and the network behaving towards it as it did: its own timer firing,
\* or the status line, the rejection or the body it received.
AloneResult(c) ==
    IF ~isValidUrl(UrlString(validateConfig(config[c])))
    THEN FailureResult(config[c], Err("Error", "Invalid URL format"), 0)
    ELSE IF timer[c].state = "fired"
    THEN FailureResult(config[c], Err("Error", "Request timeout"), 0)
    ELSE IF fetchError[c] # NoError
    THEN FailureResult(config[c], fetchError[c], 0)
    ELSE IF response[c] # NoResponse /\ response[c].status \notin 200..299
    THEN FailureResult(config[c],
             Err("Error", "HTTP " \o ToString(response[c].status) \o ": "
                          \o response[c].statusText), 0)
    ELSE IF fetched[c] # <<>>
    THEN ScrapeAfterFetch(config[c], fetched[c][1], 0).value
    ELSE NoResult

\* C22: concurrent scrape calls do not interfere: under every interleaving
\* each call's result is the one it produces alone, and a request is only
\* ever aborted by the timer of its own call.
C22_CallsDoNotInterfere ==
    \A c \in Calls :
        /\ Resolved(c) => Untimed(result[c]) = Untimed(AloneResult(c))
        /\ aborted[c] => timer[c].state = "fired"
        /\ pc[c] # "rejected"

\* the timer of one call has fired while the request of the other, begun
\* before, is in flight and is not aborted
C22_TimeoutBesideRequestInFlight ==
    \E c, d \in Calls :
        /\ c # d
        /\ now = 3
        /\ timer[c].state = "fired" /\ Failed(c)
        /\ pc[d] = "fetch" /\ ~aborted[d]

\* the request bodies that are not JSON, or JSON without a url
Malformed == {"not json", "null", "{}", "[]", "{\"url\":\"\"}"}

\* C23: the route answers 200 with the scrape result whenever the scrape
\* completed, also when the result says success false; it answers 400 or
\* 500 only to a malformed request body.
C23_RouteAnswers200WhenScrapeCompleted ==
    \A c \in Calls :
        httpResponse[c] # NoReply =>
            /\ httpResponse[c].status \in {200, 400, 500}
            /\ Resolved(c) =>
                   httpResponse[c].status = 200 /\ httpResponse[c].body = result[c]
            /\ httpResponse[c].status \in {400, 500} =>
                   httpRequest[c].text \in Malformed /\ pc[c] = "idle"

\* a scrape that failed has been answered with status 200
C23_FailureAnswered200 ==
    \E c \in Calls :
        /\ httpResponse[c] # NoReply
        /\ httpResponse[c].status = 200
        /\ httpResponse[c].body.success = FALSE
        /\ httpResponse[c].body.error = "HTTP 404: Not Found"

\* the defaults of the optional fields
Defaults ==
    [maxRetries |-> 3, timeout |-> 10000, javascript |-> TRUE,
     extractMode |-> "text", aiPrompts |-> <<>>]

\* C24: validateConfig gives back a request in which each field the caller
\* supplied keeps its value and each absent field has its default.
C24_ValidateKeepsSuppliedFields ==
    \A c \in Calls :
        (Started(c) /\ validateConfigThrows(config[c]) = NoError) =>
            /\ \A key \in DOMAIN config[c] :
                   validateConfig(config[c])[key] = config[c][key]
            /\ \A key \in DOMAIN Defaults \ DOMAIN config[c] :
                   validateConfig(config[c])[key] = Defaults[key]
            /\ (timer[c] # NoTimer /\ Has(config[c], "timeout")) =>
                   timer[c].delay = config[c].timeout

\* the order in which scrape calls its methods
StageOrder ==
    <<"validateConfig", "isValidUrl", "fetchContent", "extractMetadata",
      "enhanceContentWithAI", "extractStructuredData">>

Ran(c, stage) == \E n \in 1..Len(stages[c]) : stages[c][n] = stage

Rank(stage) == Least({n \in 1..Len(StageOrder) : StageOrder[n] = stage})

\* the fetch of call c signalled an error: a non-2xx status, a rejection of
\* fetch or of the body read, or the abort of the timeout
FetchSignalledError(c) ==
    \/ fetchError[c] # NoError
    \/ response[c] # NoResponse /\ ~ok(response[c])

\* C25: scrape runs validate config, validate URL, fetch, extract metadata,
\* prompt pipeline (only when aiPrompts is non-empty) and structured
\* extraction (only in structured mode) in this order, none of the first
\* four skipped; a success has run every stage its configuration asks for;
\* and when the fetch signals an error the result is the failure result and
\* nothing after the fetch has run.
C25_StagesInOrder ==
    \A c \in Calls :
        /\ \A n \in 1..Len(stages[c]) :
               /\ n <= 4 => stages[c][n] = StageOrder[n]
               /\ n > 1 => Rank(stages[c][n - 1]) < Rank(stages[c][n])
        /\ Ran(c, "enhanceContentWithAI") => Len(Prompts(c)) > 0
        /\ Ran(c, "extractStructuredData") => Mode(c) = "structured"
        /\ Succeeded(c) =>
               /\ Len(stages[c]) >= 4
               /\ Len(Prompts(c)) > 0 => Ran(c, "enhanceContentWithAI")
               /\ Mode(c) = "structured" =>
                      Ran(c, "extractStructuredData")
        /\ FetchSignalledError(c) =>
               /\ stages[c] = SubSeq(StageOrder, 1, 3)
               /\ pc[c] = "resolved"
               /\ ~result[c].success
               /\ fetched[c] = <<>>

\* a structured call with prompts has run all six stages
C25_AllSixStagesRan ==
    \E c \in Calls : Succeeded(c) /\ stages[c] = StageOrder

\* a call whose fetch was answered with an error status has stopped there
C25_StoppedAtFetch ==
    \E c \in Calls :
        /\ response[c] # NoResponse /\ ~ok(response[c])
        /\ stages[c] = SubSeq(StageOrder, 1, 3)
        /\ pc[c] = "resolved"

EndsAt(s, lit, i) == i >= Len(lit) /\ SubSeq(s, i - Len(lit) + 1, i) = lit

StartsAt(s, lit, i) ==
    i + Len(lit) - 1 <= Len(s) /\ SubSeq(s, i, i + Len(lit) - 1) = lit

\* How an HTML parser reads the page: Inside(s)[i] is the block that
\* character i lies in ("data" outside every block). A comment runs from
\* <!-- to -->, a script or style element from its start tag to its end
\* tag, which may hold white space before the >.
Inside(s) ==
    LET at[i \in 1..(Len(s) + 1)] ==
            IF i = 1 THEN "data"
            ELSE The({
                IF before = "data"
                THEN IF StartsAt(s, "<!--", i - 1) THEN "comment"
                     ELSE IF StartsAt(s, "<script>", i - 1) THEN "script"
                     ELSE IF StartsAt(s, "<style>", i - 1) THEN "style"
                     ELSE "data"
                ELSE IF before = "comment"
                THEN IF EndsAt(s, "-->", i - 1) THEN "data" ELSE "comment"
                ELSE IF before = "script"
                THEN IF EndsAt(s, "</script>", i - 1) \/ EndsAt(s, "</script >", i - 1)
                     THEN "data" ELSE "script"
                ELSE IF EndsAt(s, "</style>", i - 1) THEN "data" ELSE "style"
                : before \in {at[i - 1]}})
    IN  at

\* C26: on a page whose every script, style and comment block is closed and
\* whose every letter lies inside such a block, the normalized text holds no
\* letter.
C26_NoBlockTextLeaks ==
    \A c \in Active :
        (/\ pc[c] = "normalized"
         /\ Inside(result[c].html)[Len(result[c].html) + 1] = "data"
         /\ \A i \in 1..Len(result[c].html) :
                Ch(result[c].html, i) = "M" => Inside(result[c].html)[i] # "data")
            => ~Includes(result[c].text, "M")

\* C27: maxRetries, selector and javascript are inert: a call that differs
\* from an earlier one only in these fields and meets the same network
\* behaviour issues the same request and settles with the same result, the
\* timestamp apart.
C27_InertFields ==
    (Settled(1) /\ Settled(2)) =>
        /\ requests[2] = requests[1]
        /\ pc[2] = pc[1]
        /\ Resolved(1) => Untimed(result[2]) = Untimed(result[1])

\* both calls read a page and succeeded, with different values of the
\* three fields
C27_BothScrapedThePage ==
    /\ Succeeded(1) /\ Succeeded(2)
    /\ fetched[1] # <<>> /\ fetched[1][1] # ""
    /\ Has(config[1], "selector") # Has(config[2], "selector")
    /\ validateConfig(config[1]).maxRetries # validateConfig(config[2]).maxRetries
    /\ validateConfig(config[1]).javascript # validateConfig(config[2]).javascript

\* C28: once fetchContent has settled (body returned, error status,
\* network error or abort) the deadline timer of the call is cancelled or
\* has fired, never pending; and a request is aborted only by the timer
\* firing while the fetch is pending, before any response.
C28_NoTimerLeftPending ==
    \A c \in Calls :
        /\ Settled(c) => timer[c] = NoTimer \/ timer[c].state \in {"cleared", "fired"}
        /\ pc[c] = "text" => timer[c].state = "cleared"
        /\ aborted[c] =>
               /\ timer[c].state = "fired"
               /\ response[c] = NoResponse /\ ~bodyRead[c] /\ fetched[c] = <<>>
               /\ Failed(c) /\ result[c].error = "Request timeout"
        /\ timer[c] # NoTimer /\ timer[c].state = "fired" => aborted[c]

\* fetch was rejected by the network and the catch clause cancelled the timer
C28_TimerCancelledInCatch ==
    \E c \in Calls :
        /\ Failed(c) /\ fetchError[c] # NoError /\ response[c] = NoResponse
        /\ timer[c].state = "cleared"

NoStructure ==
    [headings |-> <<>>, lists |-> <<>>, tables |-> <<>>, forms |-> <<>>,
     jsonLd |-> <<>>]

\* C29: in structured mode with a non-empty aiPrompts the structured data
\* of a success holds five empty sequences whatever the page, and its
\* content, which is what was scanned, holds no tag.
C29_PromptsEmptyStructuredData ==
    \A c \in Calls :
        (Succeeded(c) /\ Mode(c) = "structured" /\ Len(Prompts(c)) > 0) =>
            /\ result[c].structuredData = NoStructure
            /\ \A i \in 1..Len(result[c].content) : TagEnd(result[c].content, i) = 0

\* a page of headings, a list and a table scraped in structured mode through
\* clean_text, which keeps the words of the page
C29_MarkupPageThroughCleanText ==
    \E c \in Calls :
        /\ Succeeded(c) /\ Mode(c) = "structured" /\ Prompts(c) = <<"clean_text">>
        /\ fetched[c] = <<HeadingsListTable>>
        /\ result[c].content # ""

\* C30: extract_key_points as the first prompt sees one line: the text it
\* is given holds no line break, and its value is that whole normalized text
\* when the text is shorter than 100 characters and holds ':' or '-', and
\* the empty string otherwise.
C30_KeyPointsSeeOneLine ==
    \A c \in Active :
        pc[c] = "prompted" =>
            The({/\ ~Includes(normalized, "\n")
                 /\ result[c].text =
                        IF /\ Len(normalized) < 100
                           /\ Includes(normalized, ":") \/ Includes(normalized, "-")
                        THEN normalized ELSE ""
                 : normalized \in {extractTextContent(result[c].content)}})

\* a page of two lines, 100 characters after normalization, with a marker
C30_HundredCharactersDropped ==
    \E c \in Active :
        /\ pc[c] = "prompted"
        /\ Includes(result[c].content, "\n")
        /\ Includes(result[c].content, ":")
        /\ Len(extractTextContent(result[c].content)) = 100
        /\ result[c].text = ""

\* a page of two lines with a marker on one of them, kept whole
C30_TwoLinesKeptAsOne ==
    \E c \in Active :
        /\ pc[c] = "prompted"
        /\ result[c].content = "xxxxxxxxxxxxxxxxxxxxxxxxxxxxxxxxxxxxxxxxxxxxxxxxxx\n-"
        /\ result[c].text = "xxxxxxxxxxxxxxxxxxxxxxxxxxxxxxxxxxxxxxxxxxxxxxxxxx -"

====
